---- MODULE Spec2Model ----
(***************************************************************************)
(* Model of examples/pipelines/rag/sql_db_assistant_pipeline.py: the       *)
(* Pipeline object (Valves read from the environment at construction,      *)
(* set_pipelines, on_valves_updated) and Pipeline.pipe, which builds one   *)
(* chat-completions request, POSTs it and maps the response to a string.   *)
(*                                                                         *)
(* Text is modelled as a sequence of tokens (a token is a character or an  *)
(* indivisible literal fragment), Python string concatenation as \o.       *)
(* JSON values are tagged records; a dict is a sequence of <<key, value>>  *)
(* pairs.  An expression that may raise evaluates to Ok(v) or Raise(e).    *)
(***************************************************************************)
EXTENDS Integers, Sequences, FiniteSets, TLC

VARIABLES
    environ,     \* environ[o]: os.environ of the process that constructs pipeline o
    type,        \* self.type        (defined for constructed pipelines only)
    name,        \* self.name
    valves,      \* self.valves
    pipelines,   \* self.pipelines
    parameters,  \* self.parameters
    pc,          \* pc[c]: position of caller c in pipe: "idle", "waiting", "done"
    args,        \* args[c]: the arguments of c's current invocation of pipe
    request,     \* request[c]: the HTTP request c handed to requests.post
    response,    \* response[c]: the outcome of that HTTP call
    result,      \* result[c]: what pipe gave its caller (a return value or a raise)
    posts,       \* posts[c]: HTTP POSTs issued by c's current invocation
    ncalls       \* ncalls[c]: invocations c has started

vars == <<environ, type, name, valves, pipelines, parameters,
          pc, args, request, response, result, posts, ncalls>>

self_vars == <<type, name, valves, pipelines, parameters>>
call_vars == <<pc, args, request, response, result, posts, ncalls>>

-----------------------------------------------------------------------------
(* Bounds of the model *)

MaxMsgLen == 2         \* longest user_message
MaxContentLen == 3     \* longest choices[i].message.content
MaxCalls == 2          \* invocations per caller

Objs == {1, 2}         \* pipeline objects
Calls == {1, 2}        \* callers of pipe

None == [none |-> TRUE]

RECURSIVE SeqsUpTo(_, _)
SeqsUpTo(A, n) ==
    IF n = 0 THEN {<<>>}
    ELSE LET S == SeqsUpTo(A, n - 1)
         IN  S \cup {Append(s, a) : s \in {t \in S : Len(t) = n - 1}, a \in A}

-----------------------------------------------------------------------------
(* Configuration: Pipeline.Valves and Pipeline.__init__ *)

EnvNames == {"AZURE_OPENAI_API_KEY", "AZURE_OPENAI_ENDPOINT",
             "AZURE_OPENAI_API_VERSION", "AZURE_OPENAI_MODEL",
             "SQL_SERVER", "SQL_DATABASE", "SQL_USERNAME", "SQL_PASSWORD",
             "SQL_DRIVER"}

AzureNames == {"AZURE_OPENAI_API_KEY", "AZURE_OPENAI_ENDPOINT",
               "AZURE_OPENAI_API_VERSION", "AZURE_OPENAI_MODEL"}

SqlNames == EnvNames \ AzureNames

Defaults ==
    [n \in EnvNames |->
        CASE n = "AZURE_OPENAI_API_KEY"     -> <<"your-azure-openai-api-key">>
          [] n = "AZURE_OPENAI_ENDPOINT"    -> <<"your-azure-openai-endpoint">>
          [] n = "AZURE_OPENAI_API_VERSION" -> <<"2024-02-01">>
          [] n = "AZURE_OPENAI_MODEL"       -> <<"gpt-4">>
          [] n = "SQL_SERVER"               -> <<"localhost">>
          [] n = "SQL_DATABASE"             -> <<"testdb">>
          [] n = "SQL_USERNAME"             -> <<"testuser">>
          [] n = "SQL_PASSWORD"             -> <<"testpassword">>
          [] n = "SQL_DRIVER"               -> <<"PostgreSQL Driver">>]

Unset == [set |-> FALSE]
SetTo(v) == [set |-> TRUE, value |-> v]

\* a plausible slip: os.getenv(key) or default, which drops a value set to ""
getenvOrDefault(env, key, default) ==
    IF env[key].set /\ env[key].value # <<>> THEN env[key].value ELSE default

\* os.getenv(key, default)
getenv(env, key, default) ==
    IF env[key].set THEN env[key].value ELSE default

\* self.Valves(**{...}) of __init__
LoadValves(env) ==
    [n \in EnvNames |-> getenv(env, n, Defaults[n])]

PIPELINES == << [id |-> "azure-text-to-sql", name |-> "Azure OpenAI Text-to-SQL"] >>

PARAMETERS ==
    << [name |-> "AZURE_OPENAI_API_KEY", type |-> "string", secret |-> TRUE],
       [name |-> "AZURE_OPENAI_ENDPOINT", type |-> "string"],
       [name |-> "AZURE_OPENAI_API_VERSION", type |-> "string"],
       [name |-> "AZURE_OPENAI_MODEL", type |-> "string"],
       [name |-> "SQL_SERVER", type |-> "string"],
       [name |-> "SQL_DATABASE", type |-> "string"],
       [name |-> "SQL_USERNAME", type |-> "string"],
       [name |-> "SQL_PASSWORD", type |-> "string", secret |-> TRUE],
       [name |-> "SQL_DRIVER", type |-> "string"] >>

-----------------------------------------------------------------------------
(* Python values and exceptions *)

Ok(v) == [ok |-> TRUE, v |-> v]
Raise(t, m) == [ok |-> FALSE, exc |-> [type |-> t, msg |-> m]]

JNull == [t |-> "null"]
JNum(n) == [t |-> "num", n |-> n]
JStr(s) == [t |-> "str", s |-> s]
JList(l) == [t |-> "list", l |-> l]
JDict(d) == [t |-> "dict", d |-> d]

\* The exception classes of requests.exceptions (all derive from RequestException)
RequestExceptions == {"ConnectionError", "Timeout", "HTTPError", "JSONDecodeError"}

HasKey(d, k) == \E i \in 1..Len(d) : d[i][1] = k
\* a later duplicate of a key wins, as in json.loads
Lookup(d, k) == d[CHOOSE i \in 1..Len(d) :
                     d[i][1] = k /\ \A j \in (i + 1)..Len(d) : d[j][1] # k][2]

\* v[k] for a str key k
GetItemStr(v, k) ==
    CASE v.t = "dict" -> IF HasKey(v.d, k) THEN Ok(Lookup(v.d, k))
                         ELSE Raise("KeyError", <<k>>)
      [] OTHER        -> Raise("TypeError", <<>>)

\* v[i] for an int index i >= 0 (a JSON object has string keys only)
GetItemInt(v, i) ==
    CASE v.t = "dict" -> Raise("KeyError", <<>>)
      [] v.t = "list" -> IF i < Len(v.l) THEN Ok(v.l[i + 1])
                         ELSE Raise("IndexError", <<>>)
      [] v.t = "str"  -> IF i < Len(v.s) THEN Ok(JStr(<<v.s[i + 1]>>))
                         ELSE Raise("IndexError", <<>>)
      [] OTHER        -> Raise("TypeError", <<>>)

Whitespace == {" ", "\n", "\t"}

RECURSIVE lstrip(_)
lstrip(s) ==
    IF s # <<>> /\ Head(s) \in Whitespace THEN lstrip(Tail(s)) ELSE s

RECURSIVE rstrip(_)
rstrip(s) ==
    IF s # <<>> /\ s[Len(s)] \in Whitespace
    THEN rstrip(SubSeq(s, 1, Len(s) - 1)) ELSE s

\* a plausible slip: lstrip() where strip() was meant
stripLeftOnly(s) == lstrip(s)

\* str.strip()
strip(s) == rstrip(lstrip(s))

\* v.strip(): only str has the attribute
CallStrip(v) ==
    IF v.t = "str" THEN Ok(strip(v.s)) ELSE Raise("AttributeError", <<>>)

-----------------------------------------------------------------------------
(* Pipeline.pipe: the request (lines 93-108) *)

PROMPT_PREFIX ==
    << "Convert the following user request into a syntactically correct SQL query for PostgreSQL. ",
       "Make sure the query is safe and uses best practices. If filtering by a date, use YYYY-MM-DD format. ",
       "User Request: " >>

Headers(v) ==
    ("api-key" :> v["AZURE_OPENAI_API_KEY"])
        @@ ("Content-Type" :> <<"application/json">>)

Url(v) ==
    v["AZURE_OPENAI_ENDPOINT"] \o <<"/openai/deployments/">>
        \o v["AZURE_OPENAI_MODEL"] \o <<"/chat/completions?api-version=">>
        \o v["AZURE_OPENAI_API_VERSION"]

PromptStripped(user_message) == PROMPT_PREFIX \o strip(user_message)

Prompt(user_message) == PROMPT_PREFIX \o user_message

PayloadModelId(v, a) ==
    [model    |-> a.model_id,
     messages |-> << [role |-> "user", content |-> Prompt(a.user_message)] >>]

PayloadDefaultModel(v, a) ==
    [model    |-> Defaults["AZURE_OPENAI_MODEL"],
     messages |-> << [role |-> "user", content |-> Prompt(a.user_message)] >>]

Payload(v, a) ==
    [model    |-> v["AZURE_OPENAI_MODEL"],
     messages |-> << [role |-> "user", content |-> Prompt(a.user_message)] >>]

\* the arguments of requests.post(url=url, json=payload, headers=headers)
BuildRequest(v, a) ==
    [method  |-> "POST",
     url     |-> Url(v),
     headers |-> Headers(v),
     json    |-> Payload(v, a)]

-----------------------------------------------------------------------------
(* Pipeline.pipe: the response (lines 110-120) *)

\* An HTTP call either fails in transport or yields a status and a body.
TransportError(t) == [kind |-> "transport", exc |-> t]
HttpResponse(status, body) == [kind |-> "http", status |-> status, body |-> body]

\* A body is text that json.loads accepts (and its value), or is not.
NotJson == [json |-> FALSE]
Json(v) == [json |-> TRUE, value |-> v]

StatusStr == (200 :> "200") @@ (201 :> "201") @@ (304 :> "304")
                 @@ (404 :> "404") @@ (500 :> "500")

\* requests.post: a transport failure raises a RequestException
post(resp) ==
    IF resp.kind = "transport" THEN Raise(resp.exc, <<resp.exc>>) ELSE Ok(resp)

\* Response.raise_for_status(): HTTPError for 4xx and 5xx, nothing otherwise
raise_for_status(r, url) ==
    IF 400 <= r.status /\ r.status < 500
    THEN Raise("HTTPError", <<StatusStr[r.status], " Client Error: ", " for url: ">> \o url)
    ELSE IF 500 <= r.status /\ r.status < 600
    THEN Raise("HTTPError", <<StatusStr[r.status], " Server Error: ", " for url: ">> \o url)
    ELSE Ok(r)

\* Response.json(): requests.exceptions.JSONDecodeError when the body is no JSON
json(r) ==
    IF r.body.json THEN Ok(r.body.value)
    ELSE Raise("JSONDecodeError", <<"Expecting value: line 1 column 1 (char 0)">>)

\* The try block, lines 111-113: the value of sql_query, or the exception raised
SqlQuery(req, resp) ==
    LET r == post(resp) IN
    IF ~r.ok THEN r ELSE
    LET s == raise_for_status(r.v, req.url) IN
    IF ~s.ok THEN s ELSE
    LET j == json(r.v) IN
    IF ~j.ok THEN j ELSE
    LET choices == GetItemStr(j.v, "choices") IN
    IF ~choices.ok THEN choices ELSE
    LET first == GetItemInt(choices.v, 0) IN
    IF ~first.ok THEN first ELSE
    LET message == GetItemStr(first.v, "message") IN
    IF ~message.ok THEN message ELSE
    LET content == GetItemStr(message.v, "content") IN
    IF ~content.ok THEN content ELSE
    CallStrip(content.v)

Returned(text) == [kind |-> "return", value |-> text]
Raised(exc) == [kind |-> "raise", exc |-> exc]

\* "(x)" stands for the cross mark U+274C, which a TLA+ string cannot hold
API_REQUEST_FAILED == "(x) API Request Failed: "
MISSING_FIELDS == "(x) OpenAI API response missing expected fields"

\* Lines 110-120: the except clauses and the final return
PipeOutcome(req, resp) ==
    LET q == SqlQuery(req, resp) IN
    IF q.ok THEN Returned(q.v)
    ELSE IF q.exc.type \in RequestExceptions
    THEN Returned(<<API_REQUEST_FAILED>> \o q.exc.msg)
    ELSE IF q.exc.type = "KeyError"
    THEN Returned(<<MISSING_FIELDS>>)
    ELSE Raised(q.exc)

-----------------------------------------------------------------------------
(* The inputs the model draws from *)

MsgAlphabet == {" ", "M"}
UserMessages == SeqsUpTo(MsgAlphabet, MaxMsgLen)

ContentAlphabet == {" ", "S"}
Contents ==
    SeqsUpTo(ContentAlphabet, MaxContentLen) \cup {<<"\n", "S", " ", "S", "\t">>}

\* model_id, messages and body as the host passes them
HostArgs ==
    { [model_id |-> <<"azure-text-to-sql">>, messages |-> <<>>, body |-> JDict(<<>>)],
      [model_id |-> <<"gpt-4">>,
       messages |-> << [role |-> "user", content |-> <<"M">>] >>,
       body     |-> JDict(<< <<"stream", JStr(<<"M">>)>> >>)] }

PipeArgs(Msgs, Hosts) ==
    { [user_message |-> m, model_id |-> h.model_id,
       messages |-> h.messages, body |-> h.body] : m \in Msgs, h \in Hosts }

Message(s) == JDict(<< <<"content", JStr(s)>> >>)
Choice(s) == JDict(<< <<"message", Message(s)>> >>)
Completion(choices) == JDict(<< <<"choices", JList(choices)>> >>)

\* the documented shape, and the shape a provider sends (more keys, more choices)
WellFormed ==
    { Completion(<<Choice(s)>>) : s \in Contents }
    \cup
    { JDict(<< <<"id", JStr(<<"S">>)>>,
               <<"choices",
                 JList(<< JDict(<< <<"index", JNum(0)>>,
                                   <<"message",
                                     JDict(<< <<"role", JStr(<<"S">>)>>,
                                              <<"content", JStr(s)>> >>)>> >>),
                          Choice(<<"S", "S">>) >>)>> >>) : s \in Contents }

Malformed ==
    { JDict(<<>>),
      JDict(<< <<"error", JStr(<<"S">>)>> >>),
      JNull,
      JList(<<>>),
      JStr(<<"S">>),
      Completion(<<>>),
      JDict(<< <<"choices", JDict(<<>>)>> >>),
      JDict(<< <<"choices", JNull>> >>),
      JDict(<< <<"choices", JStr(<<"S">>)>> >>),
      Completion(<<JDict(<<>>)>>),
      Completion(<<JNull>>),
      Completion(<<JStr(<<"S">>)>>),
      Completion(<<JDict(<< <<"message", JDict(<<>>)>> >>)>>),
      Completion(<<JDict(<< <<"message", JNull>> >>)>>),
      Completion(<<JDict(<< <<"message", JStr(<<"S">>)>> >>)>>),
      Completion(<<JDict(<< <<"message", JDict(<< <<"content", JNull>> >>)>> >>)>>),
      Completion(<<JDict(<< <<"message", JDict(<< <<"content", JNum(1)>> >>)>> >>)>>),
      Completion(<<JDict(<< <<"message",
                              JDict(<< <<"content", JList(<<JStr(<<"S">>)>>)>> >>)>> >>)>>) }

Statuses == DOMAIN StatusStr
TransportErrors == {"ConnectionError", "Timeout"}

ResponsesOf(Sts, Vals) ==
    { TransportError(t) : t \in TransportErrors }
    \cup { HttpResponse(st, NotJson) : st \in Sts }
    \cup { HttpResponse(st, Json(v)) : st \in Sts, v \in Vals }

Responses == ResponsesOf(Statuses, WellFormed \cup Malformed)

EnvOf(Set, v) == [n \in EnvNames |-> IF n \in Set THEN SetTo(v) ELSE Unset]

-----------------------------------------------------------------------------
(* Actions *)

InitWith(Os, Cs, Envs) ==
    /\ environ \in [Os -> Envs]
    /\ type = <<>>
    /\ name = <<>>
    /\ valves = <<>>
    /\ pipelines = <<>>
    /\ parameters = <<>>
    /\ pc = [c \in Cs |-> "idle"]
    /\ args = [c \in Cs |-> None]
    /\ request = [c \in Cs |-> None]
    /\ response = [c \in Cs |-> None]
    /\ result = [c \in Cs |-> None]
    /\ posts = [c \in Cs |-> 0]
    /\ ncalls = [c \in Cs |-> 0]

Constructed == DOMAIN valves

\* Pipeline.__init__ (lines 30-51), set_pipelines included
__init__(o) ==
    /\ o \in DOMAIN environ
    /\ o \notin Constructed
    /\ type' = type @@ (o :> "manifold")
    /\ name' = name @@ (o :> "Azure OpenAI Text-to-SQL Pipeline")
    /\ valves' = valves @@ (o :> LoadValves(environ[o]))
    /\ pipelines' = pipelines @@ (o :> PIPELINES)
    /\ parameters' = parameters @@ (o :> PARAMETERS)
    /\ UNCHANGED <<environ, call_vars>>

\* Pipeline.on_valves_updated (lines 74-77): set_pipelines again
on_valves_updated(o) ==
    /\ o \in Constructed
    /\ pipelines' = [pipelines EXCEPT ![o] = PIPELINES]
    /\ parameters' = [parameters EXCEPT ![o] = PARAMETERS]
    /\ UNCHANGED <<environ, type, name, valves, call_vars>>

\* pipe up to the moment requests.post has sent the request (lines 87-111)
PipeSend(c, o, a) ==
    /\ pc[c] \in {"idle", "done"}
    /\ ncalls[c] < MaxCalls
    /\ o \in Constructed
    /\ args' = [args EXCEPT ![c] = [self |-> o] @@ a]
    /\ request' = [request EXCEPT ![c] = BuildRequest(valves[o], a)]
    /\ response' = [response EXCEPT ![c] = None]
    /\ result' = [result EXCEPT ![c] = None]
    /\ posts' = [posts EXCEPT ![c] = 1]
    /\ ncalls' = [ncalls EXCEPT ![c] = @ + 1]
    /\ pc' = [pc EXCEPT ![c] = "waiting"]

\* a plausible slip: pipe records the host's model_id in the valves
PipeCallStoresModel(c, o, a) ==
    /\ PipeSend(c, o, a)
    /\ valves' = [valves EXCEPT ![o]["AZURE_OPENAI_MODEL"] = a.model_id]
    /\ UNCHANGED <<environ, type, name, pipelines, parameters>>

PipeCall(c, o, a) ==
    /\ PipeSend(c, o, a)
    /\ UNCHANGED <<environ, self_vars>>

\* the HTTP call ends with r, and pipe runs to its return or raise (lines 111-120)
PipeFinish(c, r) ==
    /\ pc[c] = "waiting"
    /\ response' = [response EXCEPT ![c] = r]
    /\ result' = [result EXCEPT ![c] = PipeOutcome(request[c], r)]
    /\ pc' = [pc EXCEPT ![c] = "done"]
    /\ UNCHANGED <<environ, self_vars, args, request, ncalls>>

\* a plausible slip: one more attempt after a transport failure
PipeReturnRetry(c, r) ==
    IF r.kind = "transport" /\ posts[c] < 2
    THEN /\ pc[c] = "waiting"
         /\ posts' = [posts EXCEPT ![c] = @ + 1]
         /\ UNCHANGED <<environ, self_vars, pc, args, request, response, result, ncalls>>
    ELSE PipeFinish(c, r) /\ UNCHANGED posts

PipeReturn(c, r) ==
    PipeFinish(c, r) /\ UNCHANGED posts

-----------------------------------------------------------------------------
(* Specifications *)

\* One pipeline, one caller, every response: the behaviour of a single pipe call.
PipeEnvs == { EnvOf({}, <<"v">>), EnvOf(AzureNames, <<"v">>),
              EnvOf({"AZURE_OPENAI_MODEL", "AZURE_OPENAI_ENDPOINT"}, <<>>) }

Init == InitWith({1}, {1}, PipeEnvs)

Next ==
    \/ \E o \in Objs : __init__(o)
    \/ \E o \in Objs : on_valves_updated(o)
    \/ \E c \in DOMAIN pc, o \in Objs, a \in PipeArgs(UserMessages, HostArgs) :
           PipeCall(c, o, a)
    \/ \E c \in DOMAIN pc, r \in Responses : PipeReturn(c, r)

Spec == Init /\ [][Next]_vars

\* Construction under every environment; one pipe call shows the valves stay put.
EnvValues == {Unset, SetTo(<<>>), SetTo(<<"v">>)}
AllEnvs == [EnvNames -> EnvValues]

FewMessages == {<<>>, <<" ", "M">>}
FewResponses ==
    { HttpResponse(500, Json(JDict(<<>>))),
      HttpResponse(200, Json(JDict(<<>>))),
      HttpResponse(200, Json(Completion(<<>>))),
      HttpResponse(200, Json(Completion(<<Choice(<<" ", "S">>)>>))) }

InitConfig == InitWith({1}, {1}, AllEnvs)

NextConfig ==
    \/ \E o \in Objs : __init__(o)
    \/ \E o \in Objs : on_valves_updated(o)
    \/ \E c \in DOMAIN pc, o \in Objs, a \in PipeArgs({<<"M">>}, HostArgs) :
           PipeCall(c, o, a)
    \/ \E c \in DOMAIN pc : PipeReturn(c, HttpResponse(200, Json(JDict(<<>>))))

SpecConfig == InitConfig /\ [][NextConfig]_vars

\* Two pipelines (each constructed in its own environment), two concurrent callers.
ConcEnvs == { EnvOf({}, <<"v">>), EnvOf(SqlNames, <<"v">>),
              EnvOf({"AZURE_OPENAI_MODEL"}, <<"m">>) }

InitConc == InitWith(Objs, Calls, ConcEnvs)

NextConc ==
    \/ \E o \in Objs : __init__(o)
    \/ \E o \in Objs : on_valves_updated(o)
    \/ \E c \in DOMAIN pc, o \in Objs, a \in PipeArgs(FewMessages, HostArgs) :
           PipeCall(c, o, a)
    \/ \E c \in DOMAIN pc, r \in FewResponses : PipeReturn(c, r)

SpecConc == InitConc /\ [][NextConc]_vars

-----------------------------------------------------------------------------
(* Properties *)

Callers == DOMAIN pc
Done(c) == pc[c] = "done"
Started(c) == pc[c] # "idle"

\* a 2xx status
IsSuccess(r) == r.kind = "http" /\ 200 <= r.status /\ r.status < 300

\* v holds something at choices[0].message.content
HasContentPath(v) ==
    /\ v.t = "dict" /\ HasKey(v.d, "choices")
    /\ LET ch == Lookup(v.d, "choices") IN
       /\ ch.t = "list" /\ Len(ch.l) >= 1
       /\ ch.l[1].t = "dict" /\ HasKey(ch.l[1].d, "message")
       /\ LET msg == Lookup(ch.l[1].d, "message") IN
          msg.t = "dict" /\ HasKey(msg.d, "content")

\* a JSON object in which the path choices[0].message.content breaks off at a
\* missing key or a missing first element
LacksContentField(v) ==
    /\ v.t = "dict"
    /\ \/ ~HasKey(v.d, "choices")
       \/ LET ch == Lookup(v.d, "choices") IN
          /\ ch.t = "list"
          /\ \/ Len(ch.l) = 0
             \/ /\ ch.l[1].t = "dict"
                /\ \/ ~HasKey(ch.l[1].d, "message")
                   \/ LET msg == Lookup(ch.l[1].d, "message") IN
                      msg.t = "dict" /\ ~HasKey(msg.d, "content")

ContentAt(v) ==
    Lookup(Lookup(Lookup(v.d, "choices").l[1].d, "message").d, "content")

\* the body has the shape {"choices": [{"message": {"content": <a string>}}, ...]}
HasTextContent(r) ==
    r.body.json /\ HasContentPath(r.body.value) /\ ContentAt(r.body.value).t = "str"

\* t is s without its leading and trailing whitespace, and otherwise s
IsTrimOf(t, s) ==
    /\ t = <<>> \/ (t[1] \notin Whitespace /\ t[Len(t)] \notin Whitespace)
    /\ \E i \in 0..Len(s) :
          /\ i + Len(t) <= Len(s)
          /\ t = SubSeq(s, i + 1, i + Len(t))
          /\ \A k \in 1..i : s[k] \in Whitespace
          /\ \A k \in (i + Len(t) + 1)..Len(s) : s[k] \in Whitespace

\* C1: pipe never raises to its caller: whatever the outcome of the HTTP call
\* (transport error, any status, any body), a finished invocation has returned
\* a string.
C1_PipeNeverRaises ==
    \A c \in Callers : Done(c) => result[c].kind = "return"

\* C2: on a success status with a JSON object that lacks the field
\* choices[0].message.content (no "choices", no first choice, no "message" or
\* no "content"), pipe returns exactly the "missing expected fields" string and
\* does not fault.
C2_MissingFieldsReported ==
    \A c \in Callers :
        (Done(c) /\ IsSuccess(response[c]) /\ response[c].body.json
                 /\ LacksContentField(response[c].body.value))
            => result[c] = Returned(<<MISSING_FIELDS>>)

\* C3: on a transport failure or a non-success status pipe returns a string that
\* begins with the "API Request Failed: " marker (so never the SQL text, never the
\* "missing expected fields" string, never a fault).
C3_FailureReported ==
    \A c \in Callers :
        (Done(c) /\ ~IsSuccess(response[c]))
            => /\ result[c].kind = "return"
               /\ Len(result[c].value) >= 1
               /\ result[c].value[1] = API_REQUEST_FAILED

\* C4: on a success status with a body {"choices":[{"message":{"content": s}}, ...]}
\* pipe returns s with its leading and trailing whitespace removed, otherwise
\* unchanged, taken from the first choice, with nothing added.
C4_ReturnsTrimmedFirstChoice ==
    \A c \in Callers :
        (Done(c) /\ IsSuccess(response[c]) /\ HasTextContent(response[c]))
            => /\ result[c].kind = "return"
               /\ IsTrimOf(result[c].value, ContentAt(response[c].body.value).s)

C4_Witness ==
    \E c \in Callers :
        /\ Done(c) /\ IsSuccess(response[c]) /\ HasTextContent(response[c])
        /\ Len(Lookup(response[c].body.value.d, "choices").l) = 2
        /\ ContentAt(response[c].body.value).s = <<"\n", "S", " ", "S", "\t">>
        /\ result[c] = Returned(<<"S", " ", "S">>)

\* C5: the request body holds exactly one message, of role "user", whose content
\* is the fixed instruction prefix (ending in "User Request: ") followed by
\* user_message verbatim, with nothing after it.
C5_PromptIsPrefixThenMessage ==
    \A c \in Callers :
        Started(c) =>
            LET m == request[c].json.messages IN
            /\ Len(m) = 1
            /\ DOMAIN m[1] = {"role", "content"}
            /\ m[1].role = "user"
            /\ Len(m[1].content) = Len(PROMPT_PREFIX) + Len(args[c].user_message)
            /\ SubSeq(m[1].content, 1, Len(PROMPT_PREFIX)) = PROMPT_PREFIX
            /\ m[1].content[Len(PROMPT_PREFIX)] = "User Request: "
            /\ SubSeq(m[1].content, Len(PROMPT_PREFIX) + 1, Len(m[1].content))
                   = args[c].user_message

C5_Witness ==
    \E c \in Callers :
        /\ Started(c)
        /\ args[c].user_message = <<" ", "M">>
        /\ request[c].json.messages[1].content = PROMPT_PREFIX \o <<" ", "M">>

C7_PipeMutatesNothing ==
    [][(\E c \in Callers : pc'[c] # pc[c]) => UNCHANGED self_vars]_vars

C7_Witness ==
    \E c, d \in Callers :
        /\ c # d
        /\ Done(c) /\ ncalls[c] = 2 /\ result[c].kind = "raise"
        /\ pc[d] = "waiting" /\ args[d].self = args[c].self
        /\ args[d].model_id # valves[args[d].self]["AZURE_OPENAI_MODEL"]
        /\ valves[args[c].self] = LoadValves(environ[args[c].self])

\* C8: the request is a POST to
\* {ENDPOINT}/openai/deployments/{MODEL}/chat/completions?api-version={VERSION}
\* with header api-key = API_KEY and body field model = MODEL: the model in the
\* URL and the model in the body are the same configured value.
C8_RequestShape ==
    \A c \in Callers :
        Started(c) =>
            LET v == valves[args[c].self]
                q == request[c]
            IN  /\ q.method = "POST"
                /\ q.url = v["AZURE_OPENAI_ENDPOINT"]
                             \o <<"/openai/deployments/">>
                             \o v["AZURE_OPENAI_MODEL"]
                             \o <<"/chat/completions?api-version=">>
                             \o v["AZURE_OPENAI_API_VERSION"]
                /\ q.headers["api-key"] = v["AZURE_OPENAI_API_KEY"]
                /\ q.json.model = v["AZURE_OPENAI_MODEL"]
                /\ SubSeq(q.url, Len(v["AZURE_OPENAI_ENDPOINT"]) + 2,
                          Len(v["AZURE_OPENAI_ENDPOINT"]) + 1 + Len(q.json.model))
                       = q.json.model

C8_Witness ==
    \E c \in Callers :
        /\ Started(c)
        /\ valves[args[c].self]["AZURE_OPENAI_MODEL"] = <<"v">>
        /\ args[c].model_id = <<"gpt-4">>
        /\ request[c].json.model = <<"v">>
        /\ request[c].url = <<"v", "/openai/deployments/", "v",
                              "/chat/completions?api-version=", "v">>

\* C9: after construction each of the nine configuration values is the value of
\* the same-named environment variable when that is set (the empty string
\* included), and its hardcoded default when it is unset, each on its own.
C9_ValvesFromEnvironment ==
    \A o \in Constructed : \A n \in EnvNames :
        /\ environ[o][n].set => valves[o][n] = environ[o][n].value
        /\ ~environ[o][n].set => valves[o][n] = Defaults[n]
        /\ (n = "AZURE_OPENAI_API_VERSION" /\ ~environ[o][n].set)
               => valves[o][n] = <<"2024-02-01">>
        /\ (n = "AZURE_OPENAI_MODEL" /\ ~environ[o][n].set)
               => valves[o][n] = <<"gpt-4">>

C9_Witness ==
    \E o \in Constructed :
        /\ environ[o]["AZURE_OPENAI_MODEL"] = Unset
        /\ valves[o]["AZURE_OPENAI_MODEL"] = <<"gpt-4">>
        /\ environ[o]["AZURE_OPENAI_API_VERSION"] = SetTo(<<>>)
        /\ valves[o]["AZURE_OPENAI_API_VERSION"] = <<>>
        /\ environ[o]["SQL_SERVER"] = SetTo(<<"v">>)
        /\ valves[o]["SQL_SERVER"] = <<"v">>
        /\ environ[o]["SQL_DATABASE"] = Unset
        /\ valves[o]["SQL_DATABASE"] = <<"testdb">>
        /\ \E c \in Callers : Done(c) /\ args[c].self = o

SameAzure(o1, o2) == \A n \in AzureNames : valves[o1][n] = valves[o2][n]

\* C10: two invocations that agree on user_message and on the four
\* AZURE_OPENAI_* values send the same request, and if they also get the same
\* HTTP response they give the same outcome, whatever model_id, messages, body
\* and the SQL_* values are.
C10_IndependentOfUnusedInputs ==
    \A c, d \in Callers :
        (/\ Started(c) /\ Started(d)
         /\ args[c].user_message = args[d].user_message
         /\ SameAzure(args[c].self, args[d].self))
            => /\ request[c] = request[d]
               /\ (Done(c) /\ Done(d) /\ response[c] = response[d])
                      => result[c] = result[d]

C10_Witness ==
    \E c, d \in Callers :
        /\ Done(c) /\ Done(d)
        /\ args[c].user_message = args[d].user_message
        /\ args[c].model_id # args[d].model_id
        /\ args[c].messages # args[d].messages
        /\ args[c].body # args[d].body
        /\ args[c].self # args[d].self
        /\ SameAzure(args[c].self, args[d].self)
        /\ \A n \in SqlNames : valves[args[c].self][n] # valves[args[d].self][n]
        /\ response[c] = response[d]
        /\ request[c] = request[d]
        /\ result[c] = result[d]
        /\ result[c] = Returned(<<"S">>)

====
